---------------------------- MODULE Spec2Model ----------------------------
(***************************************************************************)
(* Model of src/components/app/modals/link-qr-modal.tsx:                   *)
(*   - the request classifier (parse, detectBot), two pure functions;      *)
(*   - the QR download dialog (useLinkQRModal, LinkQRModalHelper,          *)
(*     AdvancedSettings) as a state machine of mounts, user events,       *)
(*     external data changes and asynchronous render completions.          *)
(* Strings that the code inspects character by character (paths,           *)
(* User-Agent values) are sequences of one-character strings.              *)
(***************************************************************************)
EXTENDS Integers, Sequences, FiniteSets, TLC

VARIABLES
  req,            \* the NextRequest handed to parse / detectBot
  pc,             \* position of the classifier call: "call" | "done"
  parsed,         \* outcome of parse(req)
  isBot,          \* outcome of detectBot(req): "none" | "true" | "false"
  props,          \* SimpleLinkProps of the link: [key, url]
  project,        \* useProject(): [domain, logo], "undefined" while loading
  plan,           \* useUsage().plan: "undefined" | "Free" | "Pro"
  phase,          \* "init" | "mounted" | "crashed"
  header,         \* what the panel header renders: "none" | "BlurImage" | "Logo"
  error,          \* error that escaped the component: "none" | "TypeError"
  showLinkQRModal,\* useLinkQRModal state
  gen,            \* number of the mounted LinkQRModalHelper instance
  showLogo,       \* useState(true)
  qrData,         \* useState({...})
  qrLogoUrl,      \* useMemo(..., []) of the mounted instance
  expanded,       \* AdvancedSettings: useState(false)
  anchor,         \* the hidden <a> of the mounted instance (anchorRef.current)
  pending,        \* renders awaited by click handlers
  clicks,         \* number of format-button clicks so far
  downloadCount,  \* number of browser downloadCount, lastDownload triggered by anchor.click()
  lastDownload    \* the latest of them: the render it came from, href, file name

reqVars   == <<req, pc, parsed, isBot>>
modalVars == <<props, project, plan, phase, header, error, showLinkQRModal, gen,
               showLogo, qrData, qrLogoUrl, expanded, anchor, pending, clicks,
               downloadCount, lastDownload>>
vars      == <<req, pc, parsed, isBot, props, project, plan, phase, header, error,
               showLinkQRModal, gen, showLogo, qrData, qrLogoUrl, expanded, anchor,
               pending, clicks, downloadCount, lastDownload>>

----------------------------------------------------------------------------
(* Bounds of the model *)

MaxPathPieces == 4
MaxUaPieces == 3
MaxParams == 2
MaxGen == 4
MaxClicks == 2

----------------------------------------------------------------------------
(* Strings as character sequences *)

Null == "null"

RECURSIVE Flatten(_)
Flatten(ss) == IF ss = <<>> THEN <<>> ELSE Head(ss) \o Flatten(Tail(ss))

SeqsUpTo(S, n) == UNION {[1..k -> S] : k \in 0..n}

HexDigits == {"0","1","2","3","4","5","6","7","8","9",
              "a","b","c","d","e","f","A","B","C","D","E","F"}

HexVal(c) ==
  CASE c = "0" -> 0 [] c = "1" -> 1 [] c = "2" -> 2 [] c = "3" -> 3
    [] c = "4" -> 4 [] c = "5" -> 5 [] c = "6" -> 6 [] c = "7" -> 7
    [] c = "8" -> 8 [] c = "9" -> 9
    [] c \in {"a","A"} -> 10 [] c \in {"b","B"} -> 11 [] c \in {"c","C"} -> 12
    [] c \in {"d","D"} -> 13 [] c \in {"e","E"} -> 14 [] c \in {"f","F"} -> 15

\* UTF-16 code unit of the characters the paths of the model are made of
CharCode(c) ==
  CASE c = "/" -> 47 [] c = "%" -> 37 [] c = "0" -> 48 [] c = "1" -> 49
    [] c = "2" -> 50 [] c = "4" -> 52 [] c = "7" -> 55 [] c = "9" -> 57
    [] c = "D" -> 68 [] c = "F" -> 70 [] c = "a" -> 97 [] c = "d" -> 100
    [] c = "e" -> 101 [] c = "f" -> 102 [] c = "i" -> 105 [] c = "n" -> 110
    [] c = "u" -> 117

\* String.prototype.toLowerCase on the letters the model uses
Lower(c) ==
  CASE c = "B" -> "b" [] c = "O" -> "o" [] c = "T" -> "t" [] c = "G" -> "g"
    [] c = "M" -> "m" [] c = "I" -> "i" [] c = "S" -> "s" [] c = "N" -> "n"
    [] c = "Y" -> "y" [] c = "D" -> "d"
    [] OTHER -> c

LowerSeq(s) == [i \in 1..Len(s) |-> Lower(s[i])]

\* s contains p as a contiguous substring
Contains(s, p) ==
  \E i \in 1..(Len(s) - Len(p) + 1) : SubSeq(s, i, i + Len(p) - 1) = p

----------------------------------------------------------------------------
(* decodeURIComponent (ECMAScript Decode with an empty reserved set): the   *)
(* result is the sequence of code points, or a URIError.                    *)

ByteAt(s, i) ==
  IF i + 2 <= Len(s) /\ s[i] = "%" /\ s[i+1] \in HexDigits /\ s[i+2] \in HexDigits
    THEN 16 * HexVal(s[i+1]) + HexVal(s[i+2])
    ELSE -1

Utf8Len(b) ==
  IF b < 128 THEN 1
  ELSE IF b >= 194 /\ b <= 223 THEN 2
  ELSE IF b >= 224 /\ b <= 239 THEN 3
  ELSE IF b >= 240 /\ b <= 244 THEN 4
  ELSE 0

\* the second octet's range depends on the first (no overlong forms, no
\* surrogates, nothing above U+10FFFF)
SecondOk(b1, b2) ==
  CASE b1 = 224 -> b2 >= 160 /\ b2 <= 191
    [] b1 = 237 -> b2 >= 128 /\ b2 <= 159
    [] b1 = 240 -> b2 >= 144 /\ b2 <= 191
    [] b1 = 244 -> b2 >= 128 /\ b2 <= 143
    [] OTHER -> b2 >= 128 /\ b2 <= 191

Utf8Valid(o) ==
  /\ Len(o) >= 1
  /\ Utf8Len(o[1]) = Len(o)
  /\ Len(o) >= 2 => SecondOk(o[1], o[2])
  /\ \A k \in 3..Len(o) : o[k] >= 128 /\ o[k] <= 191

CodePoint(o) ==
  CASE Len(o) = 1 -> o[1]
    [] Len(o) = 2 -> (o[1] % 32) * 64 + (o[2] % 64)
    [] Len(o) = 3 -> (o[1] % 16) * 4096 + (o[2] % 64) * 64 + (o[3] % 64)
    [] Len(o) = 4 -> (o[1] % 8) * 262144 + (o[2] % 64) * 4096
                       + (o[3] % 64) * 64 + (o[4] % 64)

RECURSIVE DecodeFrom(_, _)
DecodeFrom(s, i) ==
  IF i > Len(s) THEN [ok |-> TRUE, val |-> <<>>]
  ELSE IF s[i] # "%" THEN
    LET r == DecodeFrom(s, i + 1)
    IN  IF r.ok THEN [ok |-> TRUE, val |-> <<CharCode(s[i])>> \o r.val] ELSE r
  ELSE
    LET b == ByteAt(s, i)
        n == IF b < 0 THEN 0 ELSE Utf8Len(b)
        o == [k \in 1..n |-> ByteAt(s, i + 3 * (k - 1))]
    IN  IF n = 0 \/ (\E k \in 1..n : o[k] < 0) \/ ~Utf8Valid(o)
          THEN [ok |-> FALSE, val |-> <<>>]
          ELSE LET r == DecodeFrom(s, i + 3 * n)
               IN  IF r.ok THEN [ok |-> TRUE, val |-> <<CodePoint(o)>> \o r.val]
                   ELSE r

decodeURIComponent(s) == DecodeFrom(s, 1)

----------------------------------------------------------------------------
(* parse *)

HOME_HOSTNAMES == {"dub.sh", "localhost:3000"}

FallbackHost == "dewbie.vercel.app"

\* String.prototype.split("/")
RECURSIVE Split(_)
Split(s) ==
  IF \A i \in 1..Len(s) : s[i] # "/" THEN <<s>>
  ELSE LET idx == CHOOSE i \in 1..Len(s) :
                    s[i] = "/" /\ \A j \in 1..(i - 1) : s[j] # "/"
       IN  <<SubSeq(s, 1, idx - 1)>> \o Split(SubSeq(s, idx + 1, Len(s)))

\* a[1] of a JavaScript array; decodeURIComponent(undefined) reads "undefined"
SecondElement(parts) ==
  IF Len(parts) >= 2 THEN parts[2] ELSE <<"u","n","d","e","f","i","n","e","d">>

ParseDomain(r) ==
  IF r.host \in HOME_HOSTNAMES THEN FallbackHost ELSE r.host

ParseKey(r) == decodeURIComponent(SecondElement(Split(r.path)))

parse(r) ==
  LET domain == ParseDomain(r)
      path   == r.path
      key    == ParseKey(r)
  IN  IF key.ok
        THEN [kind |-> "return", domain |-> domain, path |-> path, key |-> key.val]
        ELSE [kind |-> "throw", domain |-> Null, path |-> <<>>, key |-> <<>>]

----------------------------------------------------------------------------
(* detectBot *)

BotPatterns ==
  { <<"b","o","t">>, <<"g","o","o","g","l","e">>, <<"b","a","i","d","u">>,
    <<"b","i","n","g">>, <<"m","s","n">>,
    <<"d","u","c","k","d","u","c","k","b","o","t">>, <<"t","e","o","m","a">>,
    <<"s","l","u","r","p">>, <<"y","a","n","d","e","x">>,
    <<"M","e","t","a","I","n","s","p","e","c","t","o","r">> }

\* RegExp /p1|p2|.../i .test(ua)
RegexTest(ua) ==
  \E p \in BotPatterns : Contains(LowerSeq(ua), LowerSeq(p))

\* URLSearchParams.get: the first value of the name, or null
RECURSIVE SearchParamsGet(_, _)
SearchParamsGet(q, name) ==
  IF q = <<>> THEN Null
  ELSE IF Head(q).name = name THEN Head(q).value
  ELSE SearchParamsGet(Tail(q), name)

\* JavaScript truthiness of a string-or-null
Truthy(v) == v # Null /\ v # ""

detectBot(r) ==
  IF Truthy(SearchParamsGet(r.query, "bot")) THEN TRUE
  ELSE IF r.ua.present /\ r.ua.chars # <<>> THEN RegexTest(r.ua.chars)
  ELSE FALSE

----------------------------------------------------------------------------
(* The QR dialog: external data and helpers *)

Undefined == "undefined"

ValidUrl   == "https://github.com/steven-tey/dub"
InvalidUrl == "not a url"

Plans == {Undefined, "Free", "Pro"}

Loading  == [domain |-> Undefined, logo |-> Undefined]
Projects == { Loading,
              [domain |-> "acme.link", logo |-> "https://acme.link/logo.png"] }

Colors == {"#000000", "#ff0000"}

Formats == {"svg", "png", "jpeg"}

Empty == [x \in {} |-> x]

\* {...a, ...b}: the properties of b override those of a
Spread(a, b) == b @@ a

\* getApexDomain of lib/utils: the host's apex domain, or an exception for a
\* string that is no URL
getApexDomain(url) ==
  IF url = ValidUrl THEN [ok |-> TRUE, val |-> "github.com"]
  ELSE [ok |-> FALSE, val |-> ""]

\* linkConstructor of lib/utils, with its default domain
linkConstructor(key, domain) ==
  <<"https://", IF domain = Undefined THEN "dub.sh" ELSE domain, "/", key>>

\* the value of useMemo(() => { try {...} catch (e) { return null } }, [props])
AvatarMemo(p) ==
  LET r == getApexDomain(p.url)
  IN  IF r.ok
        THEN [isNull |-> FALSE,
              avatarUrl |-> <<"https://www.google.com/s2/favicons?sz=64&domain_url=", r.val>>,
              apexDomain |-> r.val]
        ELSE [isNull |-> TRUE, avatarUrl |-> <<>>, apexDomain |-> ""]

\* const { avatarUrl, apexDomain } = <memo>, then the header's JSX:
\* destructuring null throws a TypeError out of the component
RenderHeader(p) ==
  LET memo == AvatarMemo(p)
  IN  IF memo.isNull THEN [threw |-> TRUE, header |-> "none"]
      ELSE IF memo.avatarUrl # <<>> THEN [threw |-> FALSE, header |-> "BlurImage"]
      ELSE [threw |-> FALSE, header |-> "Logo"]

qrDestUrl == linkConstructor(props.key, project.domain)

QrLogoUrl(logo) ==
  IF logo # Undefined /\ logo # "" THEN logo
  ELSE "https://app.dewbie.vercel.app/_static/logo.svg"

InitialQrData(value, logoShown, logoUrl) ==
  Spread([value |-> value, bgColor |-> "#ffffff", fgColor |-> "#000000",
          size |-> 1024, level |-> "Q"],
         IF logoShown
           THEN [imageSettings |-> [src |-> logoUrl, height |-> 256,
                                    width |-> 256, excavate |-> TRUE]]
           ELSE Empty)

\* an <a> without href
NoHref == [mime |-> "", opts |-> Empty]

\* the hidden <a>: rendered inside Modal, which shows its children only
\* while showModal holds
FreshAnchor(show) ==
  [attached |-> show, href |-> NoHref,
   download |-> <<props.key, "-qrcode.", "svg">>]

\* what the preview <QRCodeSVG> embeds
PreviewHasLogo == showLogo

HasLogo(opts) == "imageSettings" \in DOMAIN opts

\* the renderer of lib/qr, a black box: its result is determined by its input
getQR(opts, mime) == [mime |-> mime, opts |-> opts]

Mime(fmt) ==
  CASE fmt = "svg" -> "image/svg+xml"
    [] fmt = "png" -> "image/png"
    [] fmt = "jpeg" -> "image/jpeg"

Extension(fmt) ==
  CASE fmt = "svg" -> "svg" [] fmt = "png" -> "png" [] fmt = "jpeg" -> "jpg"

\* the options each button's onClick hands to the renderer
ClickOptions(fmt) ==
  IF fmt = "svg"
    THEN Spread(qrData,
                IF showLogo
                  THEN [imageSettings |->
                         Spread(qrData.imageSettings,
                                [src |-> IF project.logo # Undefined /\ project.logo # ""
                                           THEN project.logo
                                           ELSE "https://dewbie.vercel.app/_static/logo.svg"])]
                  ELSE Empty)
    ELSE qrData

\* disabled={true} of the Switch rendered for plan
SwitchDisabledFreeOnly(p) == p = "Free"

SwitchDisabled(p) == p = Undefined \/ p = "Free"

----------------------------------------------------------------------------
(* The QR dialog: mounting *)

\* useLinkQRModal: LinkQRModal is a new component whenever showLinkQRModal
\* changes, so React unmounts the helper and mounts a fresh one (fresh hooks,
\* fresh ref); the old instance's anchorRef.current becomes unset.
KeepHelper(show) ==
  /\ phase' = "mounted"
  /\ UNCHANGED <<error, header, gen, showLogo, qrLogoUrl, qrData, expanded>>
  /\ anchor' = [anchor EXCEPT !.attached = show]

MountHelper(show) ==
  LET r == RenderHeader(props)
  IN  IF r.threw
        THEN /\ phase' = "crashed"
             /\ error' = "TypeError"
             /\ UNCHANGED <<header, gen, showLogo, qrLogoUrl, qrData, expanded, anchor>>
        ELSE /\ phase' = "mounted"
             /\ error' = error
             /\ header' = r.header
             /\ gen' = gen + 1
             /\ showLogo' = TRUE
             /\ qrLogoUrl' = QrLogoUrl(project.logo)
             /\ qrData' = InitialQrData(qrDestUrl, TRUE, QrLogoUrl(project.logo))
             /\ expanded' = FALSE
             /\ anchor' = FreshAnchor(show)

FirstRender ==
  /\ phase = "init"
  /\ MountHelper(FALSE)
  /\ UNCHANGED <<props, project, plan, showLinkQRModal, pending, clicks,
                 downloadCount, lastDownload>>
  /\ UNCHANGED reqVars

OpenModal ==
  /\ phase = "mounted" /\ ~showLinkQRModal /\ gen < MaxGen
  /\ showLinkQRModal' = TRUE
  /\ MountHelper(TRUE)
  /\ UNCHANGED <<props, project, plan, pending, clicks, downloadCount, lastDownload>>
  /\ UNCHANGED reqVars

CloseModal ==
  /\ phase = "mounted" /\ showLinkQRModal /\ gen < MaxGen
  /\ showLinkQRModal' = FALSE
  /\ MountHelper(FALSE)
  /\ UNCHANGED <<props, project, plan, pending, clicks, downloadCount, lastDownload>>
  /\ UNCHANGED reqVars

----------------------------------------------------------------------------
(* The QR dialog: user events and external data *)

ToggleExpanded ==
  /\ phase = "mounted" /\ showLinkQRModal
  /\ expanded' = ~expanded
  /\ UNCHANGED <<props, project, plan, phase, header, error, showLinkQRModal, gen,
                 showLogo, qrData, qrLogoUrl, anchor, pending, clicks, downloadCount, lastDownload>>
  /\ UNCHANGED reqVars

\* <Switch fn={setShowLogo} disabled=...>: an enabled switch hands its new
\* checked value to fn, a disabled one ignores the click
ToggleLogo ==
  /\ phase = "mounted" /\ showLinkQRModal /\ expanded
  /\ ~SwitchDisabled(plan)
  /\ \E checked \in BOOLEAN : showLogo' = checked
  /\ UNCHANGED <<props, project, plan, phase, header, error, showLinkQRModal, gen,
                 qrData, qrLogoUrl, expanded, anchor, pending, clicks, downloadCount, lastDownload>>
  /\ UNCHANGED reqVars

\* HexColorPicker / HexColorInput onChange
SetFgColor ==
  /\ phase = "mounted" /\ showLinkQRModal /\ expanded
  /\ \E color \in Colors : qrData' = Spread(qrData, [fgColor |-> color])
  /\ UNCHANGED <<props, project, plan, phase, header, error, showLinkQRModal, gen,
                 showLogo, qrLogoUrl, expanded, anchor, pending, clicks, downloadCount, lastDownload>>
  /\ UNCHANGED reqVars

\* useUsage() delivers another plan: the first load, or a revalidation after
\* an upgrade or a downgrade (data once loaded does not become undefined)
PlanChange ==
  /\ phase = "mounted"
  /\ \E p \in Plans \ {plan, Undefined} : plan' = p
  /\ UNCHANGED <<props, project, phase, header, error, showLinkQRModal, gen,
                 showLogo, qrData, qrLogoUrl, expanded, anchor, pending, clicks,
                 downloadCount, lastDownload>>
  /\ UNCHANGED reqVars

\* useProject() delivers other data (the first load, a revalidation): the
\* helper renders again, its useState values and its useMemo(..., []) stay
ProjectChange ==
  /\ phase = "mounted"
  /\ \E p \in Projects \ {project, Loading} : project' = p
  /\ UNCHANGED <<props, plan, phase, header, error, showLinkQRModal, gen,
                 showLogo, qrData, qrLogoUrl, expanded, anchor, pending, clicks,
                 downloadCount, lastDownload>>
  /\ UNCHANGED reqVars

----------------------------------------------------------------------------
(* The QR dialog: downloadCount, lastDownload *)

\* onClick of a format button, up to its await
ClickFormat ==
  /\ phase = "mounted" /\ showLinkQRModal
  /\ clicks < MaxClicks
  /\ clicks' = clicks + 1
  /\ \E fmt \in Formats :
       pending' = pending \cup
                    {[id |-> clicks + 1, gen |-> gen, fmt |-> fmt,
                      opts |-> ClickOptions(fmt), key |-> props.key]}
  /\ UNCHANGED <<props, project, plan, phase, header, error, showLinkQRModal, gen,
                 showLogo, qrData, qrLogoUrl, expanded, anchor, downloadCount, lastDownload>>
  /\ UNCHANGED reqVars

NoDownload == [id |-> 0, href |-> NoHref, name |-> <<>>]

Detached == [attached |-> FALSE, href |-> NoHref, download |-> <<>>]

\* anchorRef.current as the handler of render r sees it: the ref belongs to
\* the helper instance that rendered the button
AnchorRefShared(r) == anchor

AnchorRefCurrent(r) == IF r.gen = gen THEN anchor ELSE Detached

DownloadNameDefault(key, extension) == <<key, "-qrcode.", "svg">>

DownloadName(key, extension) == <<key, "-qrcode.", extension>>

\* download(url, extension), run to its end without interruption
download(r, url, extension) ==
  IF ~AnchorRefCurrent(r).attached
    THEN UNCHANGED <<anchor, downloadCount, lastDownload>>
    ELSE LET a == [anchor EXCEPT !.href = url,
                                 !.download = DownloadName(r.key, extension)]
         IN  /\ anchor' = a
             /\ downloadCount' = downloadCount + 1
             /\ lastDownload' = [id |-> r.id, href |-> a.href, name |-> a.download]

\* the awaited renderer call of r resolves and the handler goes on
CompleteRender ==
  /\ \E r \in pending :
       /\ pending' = pending \ {r}
       /\ download(r, getQR(r.opts, Mime(r.fmt)), Extension(r.fmt))
  /\ UNCHANGED <<props, project, plan, phase, header, error, showLinkQRModal, gen,
                 showLogo, qrData, qrLogoUrl, expanded, clicks>>
  /\ UNCHANGED reqVars

----------------------------------------------------------------------------
(* Specifications *)

Links == {[key |-> "github", url |-> u] : u \in {ValidUrl, InvalidUrl}}

IdleReq == [host |-> Null, path |-> <<"/">>, query |-> <<>>,
            ua |-> [present |-> FALSE, chars |-> <<>>]]

NoParse == [kind |-> "none", domain |-> Null, path |-> <<>>, key |-> <<>>]

ReqIdle == req = IdleReq /\ pc = "done" /\ parsed = NoParse /\ isBot = "none"

ModalIdle ==
  /\ props = [key |-> "github", url |-> ValidUrl]
  /\ project = Loading
  /\ plan = Undefined
  /\ phase = "init" /\ header = "none" /\ error = "none"
  /\ showLinkQRModal = FALSE
  /\ gen = 0
  /\ showLogo = TRUE
  /\ qrLogoUrl = ""
  /\ qrData = InitialQrData(<<>>, TRUE, "")
  /\ expanded = FALSE
  /\ anchor = Detached
  /\ pending = {} /\ clicks = 0 /\ downloadCount = 0 /\ lastDownload = NoDownload

Init ==
  /\ ReqIdle
  /\ props \in Links
  /\ project \in Projects
  /\ plan \in Plans
  /\ phase = "init" /\ header = "none" /\ error = "none"
  /\ showLinkQRModal = FALSE
  /\ gen = 0
  /\ showLogo = TRUE
  /\ qrLogoUrl = ""
  /\ qrData = InitialQrData(<<>>, TRUE, "")
  /\ expanded = FALSE
  /\ anchor = Detached
  /\ pending = {} /\ clicks = 0 /\ downloadCount = 0 /\ lastDownload = NoDownload

Next ==
  \/ FirstRender
  \/ OpenModal
  \/ CloseModal
  \/ ToggleExpanded
  \/ ToggleLogo
  \/ SetFgColor
  \/ PlanChange
  \/ ProjectChange
  \/ ClickFormat
  \/ CompleteRender

Spec == Init /\ [][Next]_vars

\* --- parse ---

PathPieces == { <<"/">>, <<"a">>, <<"%">>, <<"4">>, <<"1">>,
                <<"%","2","F">>, <<"%","D","7">>, <<"%","9","0">> }

\* NextURL.pathname always starts with "/"
Paths == { <<"/">> \o Flatten(ps) : ps \in SeqsUpTo(PathPieces, MaxPathPieces) }

\* Headers.get("host"): the value, or null
Hosts == HOME_HOSTNAMES \cup {"acme.link", Null}

Parse ==
  /\ pc = "call"
  /\ parsed' = parse(req)
  /\ pc' = "done"
  /\ UNCHANGED <<req, isBot>>
  /\ UNCHANGED modalVars

InitParse ==
  /\ req \in {[host |-> h, path |-> p, query |-> <<>>,
               ua |-> [present |-> FALSE, chars |-> <<>>]] : h \in Hosts, p \in Paths}
  /\ pc = "call" /\ parsed = NoParse /\ isBot = "none"
  /\ ModalIdle

SpecParse == InitParse /\ [][Parse]_vars

\* --- detectBot ---

UaPieces == { <<"b">>, <<"o">>, <<"t">>, <<"B","O">>, <<"T">>, <<" ">>,
              <<"G","o","o","g","l","e">>, <<"m","s">>, <<"N">>,
              <<"M","o","z","i","l","l","a">>,
              <<"m","e","t","a","i","n","s","p","e","c","t","o","r">>,
              <<"Y","a","n","d","e","x">> }

UserAgents ==
  {[present |-> FALSE, chars |-> <<>>]} \cup
  {[present |-> TRUE, chars |-> Flatten(ws)] : ws \in SeqsUpTo(UaPieces, MaxUaPieces)}

Params == {[name |-> "bot", value |-> ""], [name |-> "bot", value |-> "1"],
           [name |-> "bot", value |-> "0"], [name |-> "ref", value |-> "x"]}

Queries == SeqsUpTo(Params, MaxParams)

DetectBot ==
  /\ pc = "call"
  /\ isBot' = IF detectBot(req) THEN "true" ELSE "false"
  /\ pc' = "done"
  /\ UNCHANGED <<req, parsed>>
  /\ UNCHANGED modalVars

InitDetectBot ==
  /\ req \in {[host |-> Null, path |-> <<"/">>, query |-> q, ua |-> u] :
                q \in Queries, u \in UserAgents}
  /\ pc = "call" /\ parsed = NoParse /\ isBot = "none"
  /\ ModalIdle

SpecDetectBot == InitDetectBot /\ [][DetectBot]_vars

----------------------------------------------------------------------------
(* Properties of the request classifier *)

HasParam(q, name) == \E i \in 1..Len(q) : q[i].name = name

\* C1: detectBot answers true exactly when the bot query parameter is present
\* (with any value, the empty one included) or the User-Agent contains one of
\* the bot substrings, case-insensitively.
C1_BotIffParamOrUserAgent ==
  pc = "done" /\ isBot # "none" =>
    (isBot = "true" <=>
       (HasParam(req.query, "bot") \/ (req.ua.present /\ RegexTest(req.ua.chars))))

ClaimedDomain == IF req.host \in HOME_HOSTNAMES THEN "dewbie.vercel.app" ELSE req.host

\* C2: for every request, parse returns the fallback hostname as domain when
\* the Host header is a home hostname, and the Host header itself otherwise.
C2_DomainReturnedForEveryRequest ==
  pc = "done" => parsed.kind = "return" /\ parsed.domain = ClaimedDomain

\* the text between the first and the second "/" of the path
FirstSegment ==
  LET p == req.path
      stops == {i \in 2..Len(p) : p[i] = "/"}
      stop == IF stops = {} THEN Len(p) + 1
              ELSE CHOOSE i \in stops : \A j \in stops : i <= j
  IN  SubSeq(p, 2, stop - 1)

\* C3: for every request, parse returns the URI-decoded first path segment as
\* key (later segments contribute nothing) and the pathname itself as path.
C3_KeyReturnedForEveryRequest ==
  pc = "done" =>
    /\ parsed.kind = "return"
    /\ decodeURIComponent(FirstSegment).ok
    /\ parsed.key = decodeURIComponent(FirstSegment).val
    /\ parsed.path = req.path

\* What parse does instead: it throws exactly on a first segment that is no
\* valid percent-encoding, and every call that returns gives the claimed
\* domain, key and path.
ParseReturnsUnlessMalformed ==
  pc = "done" =>
    IF decodeURIComponent(FirstSegment).ok
      THEN /\ parsed.kind = "return"
           /\ parsed.domain = ClaimedDomain
           /\ parsed.key = decodeURIComponent(FirstSegment).val
           /\ parsed.path = req.path
      ELSE parsed.kind = "throw"

----------------------------------------------------------------------------
(* Properties of the QR dialog *)

\* C4: when getApexDomain throws, the panel still renders, with the Logo
\* glyph as its header, and no error leaves the component.
C4_ApexFailureFallsBackToLogo ==
  phase # "init" /\ ~getApexDomain(props.url).ok =>
    phase = "mounted" /\ header = "Logo" /\ error = "none"

DefaultOptions ==
  /\ qrData.fgColor = "#000000"
  /\ qrData.bgColor = "#ffffff"
  /\ qrData.size = 1024
  /\ qrData.level = "Q"
  /\ showLogo

\* C5: whenever the dialog is opened or closed, the options record and the
\* logo flag are the defaults afterwards: no changed option survives a close,
\* and every opening starts from the defaults.
C5_OptionsDiscardedOnClose ==
  [][showLinkQRModal' # showLinkQRModal => DefaultOptions']_vars

\* a render started with a changed colour and a hidden logo in an earlier
\* opening is still pending, and the dialog, closed and opened again since,
\* shows the defaults
C5_Witness ==
  /\ showLinkQRModal /\ gen = 4
  /\ DefaultOptions
  /\ \E r \in pending : r.gen = 2 /\ r.opts.fgColor = "#ff0000"

PlanGatesLogo == plan = Undefined \/ plan = "Free"

\* C6 (as claimed): while the plan is absent or Free, showLogo is true in
\* every state of the mounted dialog.
C6_LogoShownWheneverPlanFree ==
  phase = "mounted" /\ PlanGatesLogo => showLogo

\* C6 (amended): while the plan is absent or Free no step hides the logo;
\* showLogo goes from true to false only in a step taken with a non-Free plan.
C6_NoHidingWhilePlanFree ==
  [][PlanGatesLogo /\ showLogo => showLogo']_vars

\* the logo has been switched off under a Pro plan
C6_Witness ==
  showLinkQRModal /\ expanded /\ plan = "Pro" /\ ~showLogo

Live(r) == r.gen = gen /\ showLinkQRModal

\* C7: the completion of a render whose dialog is still mounted triggers
\* exactly one download, made with the href that this render produced and the
\* file name <key>-qrcode.<ext> of the clicked format; nothing else triggers a
\* download.
C7_DownloadMatchesItsRender ==
  [][ /\ \A r \in pending :
           (r \notin pending' /\ Live(r)) =>
             /\ downloadCount' = downloadCount + 1
             /\ lastDownload' =
                  [id |-> r.id, href |-> getQR(r.opts, Mime(r.fmt)),
                   name |-> <<props.key, "-qrcode.", Extension(r.fmt)>>]
             /\ anchor'.href = lastDownload'.href
             /\ anchor'.download = lastDownload'.name
      /\ pending \subseteq pending' => downloadCount' = downloadCount
    ]_vars

\* two renders were pending together and completed in the reverse order of
\* the clicks, each with a download; the later download is the PNG of the
\* first click
C7_Witness ==
  /\ clicks = 2 /\ pending = {} /\ downloadCount = 2
  /\ lastDownload.id = 1
  /\ lastDownload.href.mime = "image/png"
  /\ lastDownload.name = <<"github", "-qrcode.", "png">>

\* C8: at every click on a format button, the options handed to the renderer
\* contain imageSettings if and only if showLogo is true.
C8_DownloadLogoIffShowLogo ==
  [][clicks' = clicks + 1 =>
       \A r \in pending' \ pending : HasLogo(r.opts) <=> PreviewHasLogo]_vars

\* C9: a render that completes after its dialog was closed triggers no
\* download and no error and changes no state; closing or opening the dialog
\* cancels no pending render.
C9_LateCompletionHasNoEffect ==
  [][ /\ \A r \in pending :
           (r \notin pending' /\ ~Live(r)) =>
             /\ pending' = pending \ {r}
             /\ UNCHANGED <<downloadCount, lastDownload, anchor, error, phase,
                            showLinkQRModal, gen, showLogo, qrData, expanded>>
      /\ showLinkQRModal' # showLinkQRModal => pending' = pending
    ]_vars

\* the only render was started, the dialog was closed and opened again, and
\* the render completed without a download
C9_Witness ==
  /\ clicks = 1 /\ pending = {} /\ downloadCount = 0
  /\ showLinkQRModal /\ gen = 4

\* C10: while the dialog is mounted, the value encoded in the QR code is the
\* short link of the link's key and the project's current domain.
C10_ValueIsCurrentShortLink ==
  phase = "mounted" => qrData.value = qrDestUrl

============================================================================
